---------------------------- MODULE Spec2Model ----------------------------
(***************************************************************************)
(* A model of google-drive-cli: the cache of the remote registry kept by   *)
(* RemoteDriveInterface (cloud.py), its path validation and resolution,    *)
(* and the shell commands of commands.py that read or mutate the registry. *)
(*                                                                         *)
(* The remote Google Drive is the variable `remote`; the interface's       *)
(* self.files and self.trash are `files` and `trash`.  A path is the       *)
(* sequence of its components: Path('/') is << >>, Path('/a/b') is         *)
(* <<"a", "b">>.  One step of the model is one command typed at the shell  *)
(* (main.py, execute_shell), run to its end; a push or a pull is a step    *)
(* for the command and one step for every call it makes of                 *)
(* DRIVE.create_file or DRIVE.download_file, kept in `todo`.               *)
(*                                                                         *)
(* `disk` is the local file system, `io` the calls the command last typed  *)
(* has made on the remote and on the disk, `perms` the permissions of the  *)
(* remote objects and `exportLinks` their kinds and export formats.        *)
(* REMOTE_FILE_PATH is the shell's current remote directory.               *)
(***************************************************************************)
EXTENDS Integers, Sequences, FiniteSets, TLC

VARIABLES remote, files, trash, session, ops, last,
          disk, todo, io, perms, exportLinks, REMOTE_FILE_PATH

vars == <<remote, files, trash, session, ops, last,
          disk, todo, io, perms, exportLinks, REMOTE_FILE_PATH>>

---------------------------------------------------------------------------
(* Bounds of the model *)

\* ids the remote can hand out: 1..MaxNodes
MaxNodes == 4
\* longest path (in components) a command is given
MaxDepth == 3
\* commands typed in one session
MaxOps == 2
\* pull commands typed in one session
MaxPulls == 1

\* display names (titles) of remote objects; never the empty string
Names == {"a", "b"}

Ids == 1..MaxNodes

---------------------------------------------------------------------------
(* Values *)

\* the id carried by the parent reference whose isRoot is true
Root == 0
\* Python's None
None == Root - 1
\* an uncaught TypeError ('NoneType' object is not subscriptable)
TypeError == Root - 2

\* pathlib: Path(p).name, '' for the root
Name(p) == IF p = << >> THEN "" ELSE p[Len(p)]
\* pathlib: Path(p).parent, the root is its own parent
Parent(p) == IF p = << >> THEN << >> ELSE SubSeq(p, 1, Len(p) - 1)

Paths == UNION {[1..n -> Names] : n \in 0..MaxDepth}

\* what a listing returns of a remote object: the cache holds these
Meta(r) == [id |-> r.id, title |-> r.title, parents |-> r.parents, folder |-> r.folder]

\* drive.ListFile({'q': "trashed=false"}).GetList()
ListLive(reg) == {Meta(r) : r \in {x \in reg : ~x.trashed}}
\* drive.ListFile({'q': "trashed=true"}).GetList()
ListTrashed(reg) == {Meta(r) : r \in {x \in reg : x.trashed}}

---------------------------------------------------------------------------
(* cloud.py: RemoteDriveInterface, the read side *)

\* the root parent reference, found among the parents of the live cached
\* files; None when no live cached file has the root as a parent
drive_root == IF \E f \in files : Root \in f.parents THEN Root ELSE None

files_to_search(search_trash) == IF search_trash THEN files \cup trash ELSE files

\* valid_remote_path following only one of the file's parents (the one with
\* the smallest id) instead of every parent
RECURSIVE valid_remote_path_one_parent(_, _, _)
valid_remote_path_one_parent(file, remote_path, search_trash) ==
    IF file.title # Name(remote_path) THEN "False"
    ELSE IF drive_root = None THEN "TypeError"
    ELSE IF drive_root \in file.parents THEN "True"
    ELSE IF \E check \in files_to_search(search_trash) :
                /\ check.id \in file.parents
                /\ \A other \in file.parents : check.id <= other
                /\ valid_remote_path_one_parent(check, Parent(remote_path),
                                                search_trash) = "True"
         THEN "True"
         ELSE "False"

\* "True", "False", or "TypeError" when self.drive_root is None and is subscripted
RECURSIVE valid_remote_path(_, _, _)
valid_remote_path(file, remote_path, search_trash) ==
    IF file.title # Name(remote_path) THEN "False"
    ELSE IF drive_root = None THEN "TypeError"
    ELSE IF drive_root \in file.parents THEN "True"
    ELSE IF \E check \in files_to_search(search_trash) :
                /\ check.id \in file.parents
                /\ valid_remote_path(check, Parent(remote_path), search_trash) = "True"
         THEN "True"
         ELSE "False"

\* get_remote_file searching the trash as well, whatever `trashed` is
files_to_check_with_trash(trashed) == files \cup trash

files_to_check(trashed) == IF trashed THEN trash ELSE files

matching_files(filename, trashed) ==
    {f \in files_to_check(trashed) :
        /\ f.title = Name(filename)
        /\ valid_remote_path(f, filename, trashed) = "True"}

\* the ids the user can answer the conflict prompt with: any other input
\* prompts again
resolve_mnemonic_conflict(matching_filenames) == {f.id : f \in matching_filenames}

\* the values get_remote_file can return: one value, unless the user is
\* asked to choose among several matching files
get_remote_file(filename, trashed) ==
    IF Name(filename) = "" THEN {drive_root}
    ELSE IF \E f \in files_to_check(trashed) :
                /\ f.title = Name(filename)
                /\ valid_remote_path(f, filename, trashed) = "TypeError"
         THEN {TypeError}
    ELSE IF matching_files(filename, trashed) = {} THEN {None}
    ELSE IF Cardinality(matching_files(filename, trashed)) = 1
         THEN {f.id : f \in matching_files(filename, trashed)}
         ELSE resolve_mnemonic_conflict(matching_files(filename, trashed))

\* the files handed to resolve_mnemonic_conflict, {} when it is not called
asked(filename, trashed) ==
    IF /\ Name(filename) # ""
       /\ get_remote_file(filename, trashed) # {TypeError}
       /\ Cardinality(matching_files(filename, trashed)) > 1
    THEN {f.id : f \in matching_files(filename, trashed)}
    ELSE {}

get_object_children(parent, trashed) ==
    LET to_check == IF trashed THEN trash \cup files ELSE files
        p == IF parent # None THEN parent ELSE drive_root
    IN  {f.id : f \in {x \in to_check : p \in x.parents}}

---------------------------------------------------------------------------
(* The registries a session can start from *)

Node(i, t, ps, fo, tr) ==
    [id |-> i, title |-> t, parents |-> ps, folder |-> fo, trashed |-> tr]

\* an empty drive; a drive with one folder /a; drives with /a, a second
\* folder beside or inside it and a file with both folders as parents; and
\* the chain /a/a/b
Seeds ==
    LET n1 == Node(1, "a", {Root}, TRUE, FALSE)
        n2 == {Node(2, t, ps, TRUE, FALSE) : t \in Names, ps \in {{Root}, {1}}}
        n3 == Node(3, "b", {1, 2}, FALSE, FALSE)
    IN  {{}, {n1}} \cup {{n1, y, n3} : y \in n2}
                  \cup {{n1, Node(2, "a", {1}, TRUE, FALSE),
                             Node(3, "b", {2}, FALSE, FALSE)}}

---------------------------------------------------------------------------
(* cloud.py: RemoteDriveInterface, the write side *)

\* one of the two listing calls of update_file_manifest may fail
ListingFails == {"none", "live", "trashed"}

\* self.files is assigned before the trashed listing is asked for
update_file_manifest(reg, fails) ==
    [files |-> IF fails = "live" THEN files ELSE ListLive(reg),
     trash |-> IF fails = "none" THEN ListTrashed(reg) ELSE trash]

\* remote_item.Trash() / remote_item.Delete() on the remote registry
delete_remote_file(reg, id, delete_forever) ==
    IF delete_forever
    THEN {r \in reg : r.id # id}
    ELSE {IF r.id = id THEN [r EXCEPT !.trashed = TRUE] ELSE r : r \in reg}

\* remote_item.UnTrash() on the remote registry
recover_remote_file(reg, id) ==
    {IF r.id = id THEN [r EXCEPT !.trashed = FALSE] ELSE r : r \in reg}

\* the id the remote gives a new object; None when the model has no id left
FreshId(reg) ==
    LET free == Ids \ {r.id : r \in reg}
    IN  IF free = {} THEN None ELSE CHOOSE i \in free : \A j \in free : i <= j

\* The recursion of create_file_path(directory_path): the value returned and
\* the registry it leaves, one record for every way the conflict prompts can
\* be answered.  The cache is not refreshed inside the recursion, so every
\* get_remote_file reads the cache of before the call.  full is TRUE when the
\* model ran out of ids; made holds the folders created, each with the path
\* it was created for.
RECURSIVE create_file_path(_, _)
create_file_path(directory_path, reg) ==
    IF Name(directory_path) = ""
    THEN {[ret |-> None, reg |-> reg, folder |-> TRUE, full |-> FALSE, made |-> {}]}
    ELSE UNION {
           IF parent.ret = TypeError \/ parent.full THEN {parent}
           ELSE {IF duplicate = TypeError
                 THEN [parent EXCEPT !.ret = TypeError]
                 ELSE IF duplicate # None
                 THEN [parent EXCEPT !.ret = duplicate,
                          !.folder = \E f \in files : f.id = duplicate /\ f.folder]
                 ELSE IF FreshId(parent.reg) = None
                 THEN [parent EXCEPT !.full = TRUE]
                 ELSE [ret |-> FreshId(parent.reg),
                       reg |-> parent.reg \cup
                               {Node(FreshId(parent.reg), Name(directory_path),
                                     IF parent.ret # None THEN {parent.ret} ELSE {Root},
                                     TRUE, FALSE)},
                       folder |-> TRUE, full |-> FALSE,
                       made |-> parent.made \cup
                                {[path |-> directory_path, id |-> FreshId(parent.reg)]}]
                 : duplicate \in get_remote_file(directory_path, FALSE)}
           : parent \in create_file_path(Parent(directory_path), reg)}

---------------------------------------------------------------------------
(* commands.py *)

\* what the user can type at a yes/no prompt
UserInputs == {<<"y">>, <<"n">>, <<"c">>, << >>, <<"x">>, <<"y", "n">>, <<"n", "c">>}

\* Python's `a in b` for strings
IsSubstring(a, b) ==
    \E i \in 0..(Len(b) - Len(a)) : SubSeq(b, i + 1, i + Len(a)) = a

\* the inputs ansi_yes_no_prompt returns with: decision in 'ync'
ansi_yes_no_prompt == {d \in UserInputs : IsSubstring(d, <<"y", "n", "c">>)}

\* the test made of the returned decision: ... in 'nc'
Declines(decision) == IsSubstring(decision, <<"n", "c">>)

\* move_remote_file: the argument of the two parent look-ups,
\* remote_source.parent.name and remote_dest.parent.name
parent_lookup(path) ==
    IF Name(Parent(path)) = "" THEN << >> ELSE <<Name(Parent(path))>>

\* remove_file: the delete_forever it passes to DRIVE.delete_remote_file
\* (it passes none, whatever --delete is)
remove_file_delete_forever(delete) == FALSE

Quiet == [op |-> "init", path |-> << >>, dest |-> << >>, flag |-> FALSE,
          ret |-> None, cands |-> {}, sp |-> None, dp |-> None, err |-> "ok",
          local |-> << >>, folder |-> FALSE, asked |-> FALSE, args |-> << >>]

\* a local disk with nothing on it but the root directory
EmptyDisk == [files |-> {}, dirs |-> {}]

\* an object that is downloaded as it is: its mimeType is not one of
\* application/vnd.google-apps.*
Plain == [apps |-> FALSE, links |-> {}]

\* the shell before the first command: nothing pending, nothing called
Idle ==
    /\ session = "running"
    /\ ops = 0
    /\ last = Quiet
    /\ todo = << >>
    /\ io = {}
    /\ REMOTE_FILE_PATH = << >>

\* RemoteDriveInterface.__init__
Init ==
    /\ remote \in Seeds
    /\ files = ListLive(remote)
    /\ trash = ListTrashed(remote)
    /\ Idle
    /\ disk = EmptyDisk
    /\ perms = {}
    /\ exportLinks = [i \in Ids |-> Plain]

\* a command on the registry touches neither the disk nor the permissions
RegistryOnly == UNCHANGED <<disk, todo, io, perms, exportLinks, REMOTE_FILE_PATH>>

\* the shell is at its prompt
Ready == session = "running" /\ ops < MaxOps /\ todo = << >>

\* an exception that execute_shell does not catch ends the shell
Uncaught == {"TypeError", "AttributeError", "ApiRequestError", "KeyError",
             "RecursionError", "FileNotFoundError", "IsADirectoryError",
             "NotADirectoryError"}
After(err) == IF err \in Uncaught THEN "crashed" ELSE "running"

\* the cache and the session after update_file_manifest on registry reg
Refreshed(reg, fails, rec) ==
    /\ remote' = reg
    /\ files' = update_file_manifest(reg, fails).files
    /\ trash' = update_file_manifest(reg, fails).trash
    /\ last' = [rec EXCEPT !.err = IF fails = "none" THEN "ok" ELSE "ApiRequestError"]
    /\ session' = IF fails = "none" THEN "running" ELSE "crashed"

\* a command that ends without touching the registry or the cache
Ends(rec) ==
    /\ last' = rec
    /\ session' = After(rec.err)
    /\ UNCHANGED <<remote, files, trash>>

---------------------------------------------------------------------------
(* Queries *)

\* DRIVE.get_remote_file(path, trashed)
Resolve(path, trashed) ==
    /\ Ready
    /\ ops' = ops + 1
    /\ RegistryOnly
    /\ \E ret \in get_remote_file(path, trashed) :
          Ends([Quiet EXCEPT !.op = "resolve", !.path = path, !.flag = trashed,
                             !.ret = ret, !.cands = asked(path, trashed),
                             !.err = IF ret = TypeError THEN "TypeError" ELSE "ok"])

\* ls --remote=path [--all]
list_directory(path, all) ==
    /\ Ready
    /\ ops' = ops + 1
    /\ RegistryOnly
    /\ \E remote_file \in get_remote_file(path, all) :
          LET rec == [Quiet EXCEPT !.op = "ls", !.path = path, !.flag = all,
                                   !.ret = remote_file]
          IN  IF remote_file \in {TypeError, None}
              THEN Ends([rec EXCEPT !.err = "TypeError"])
              ELSE Ends([rec EXCEPT !.cands = get_object_children(remote_file, all)])

---------------------------------------------------------------------------
(* Mutators *)

\* rm [--delete] path
remove_file(path, delete) ==
    /\ Ready
    /\ ops' = ops + 1
    /\ RegistryOnly
    /\ \E remote_item \in get_remote_file(path, FALSE) :
          LET rec == [Quiet EXCEPT !.op = "rm", !.path = path, !.flag = delete,
                                   !.ret = remote_item]
          IN  IF remote_item = TypeError THEN Ends([rec EXCEPT !.err = "TypeError"])
              ELSE IF remote_item = None THEN Ends([rec EXCEPT !.err = "RemotePathNotFound"])
              ELSE IF remote_item = Root THEN Ends([rec EXCEPT !.err = "AttributeError"])
              ELSE \E fails \in ListingFails :
                      Refreshed(delete_remote_file(remote, remote_item,
                                                   remove_file_delete_forever(delete)),
                                fails, rec)

\* recover path
recover_file(path) ==
    /\ Ready
    /\ ops' = ops + 1
    /\ RegistryOnly
    /\ \E remote_item \in get_remote_file(path, TRUE) :
          LET rec == [Quiet EXCEPT !.op = "recover", !.path = path, !.ret = remote_item]
          IN  IF remote_item = TypeError THEN Ends([rec EXCEPT !.err = "TypeError"])
              ELSE IF remote_item = None THEN Ends([rec EXCEPT !.err = "RemotePathNotFound"])
              ELSE IF remote_item = Root THEN Ends([rec EXCEPT !.err = "AttributeError"])
              ELSE \E fails \in ListingFails :
                      Refreshed(recover_remote_file(remote, remote_item), fails, rec)

\* Upload() of the moved file: the remote takes its new title and parents
Upload(reg, id, title, parents) ==
    {IF r.id = id THEN [r EXCEPT !.title = title, !.parents = parents] ELSE r : r \in reg}

\* mv source dest, from the parent look-ups on.  source_parent, dest_parent
\* and remote_file are the values the three get_remote_file calls returned.
MoveFound(source, dest, source_parent, dest_parent, remote_file) ==
    LET rec == [Quiet EXCEPT !.op = "mv", !.path = source, !.dest = dest,
                             !.ret = remote_file, !.sp = source_parent,
                             !.dp = dest_parent, !.asked = dest_parent = None]
        old == CHOOSE f \in files : f.id = remote_file
        parents(dp) == (old.parents \ {source_parent}) \cup {dp}
    IN  IF dest_parent = None
        THEN \E decision \in ansi_yes_no_prompt :
               IF Declines(decision) THEN Ends([rec EXCEPT !.err = "declined"])
               ELSE \E made \in create_file_path(Parent(dest), remote) :
                      /\ ~made.full
                      /\ IF made.ret = TypeError
                         THEN /\ remote' = made.reg
                              /\ last' = [rec EXCEPT !.err = "TypeError"]
                              /\ session' = "crashed"
                              /\ UNCHANGED <<files, trash>>
                         ELSE \E fails \in ListingFails :
                                /\ files' = update_file_manifest(made.reg, fails).files
                                /\ trash' = update_file_manifest(made.reg, fails).trash
                                /\ session' = IF fails = "none" THEN "running" ELSE "crashed"
                                /\ IF fails # "none"
                                   THEN /\ remote' = made.reg
                                        /\ last' = [rec EXCEPT !.err = "ApiRequestError"]
                                   ELSE IF ~made.folder
                                   THEN /\ remote' = made.reg
                                        /\ last' = [rec EXCEPT !.dp = made.ret,
                                                               !.err = "RemotePathIsFile"]
                                   \* the cache was refreshed before the upload: the
                                   \* object uploaded is no longer the cached one
                                   ELSE /\ remote' = Upload(made.reg, remote_file, Name(dest),
                                                            parents(made.ret))
                                        /\ last' = [rec EXCEPT !.dp = made.ret]
        ELSE IF dest_parent # Root /\ ~\E f \in files : f.id = dest_parent /\ f.folder
        THEN Ends([rec EXCEPT !.err = "RemotePathIsFile"])
        \* Upload() stores the metadata the remote answers with in the object
        \* it is called on, which is the cached one
        ELSE /\ remote' = Upload(remote, remote_file, Name(dest), parents(dest_parent))
             /\ files' = {IF f.id = remote_file
                          THEN [f EXCEPT !.title = Name(dest),
                                         !.parents = parents(dest_parent)]
                          ELSE f : f \in files}
             /\ last' = rec
             /\ session' = "running"
             /\ UNCHANGED trash

\* mv source dest
move_remote_file(source, dest) ==
    /\ Ready
    /\ ops' = ops + 1
    /\ RegistryOnly
    /\ \E source_parent \in get_remote_file(parent_lookup(source), FALSE),
          dest_parent \in get_remote_file(parent_lookup(dest), FALSE),
          remote_file \in get_remote_file(source, FALSE) :
          LET rec == [Quiet EXCEPT !.op = "mv", !.path = source, !.dest = dest,
                                   !.ret = remote_file, !.sp = source_parent,
                                   !.dp = dest_parent]
          IN  IF TypeError \in {source_parent, dest_parent, remote_file}
              THEN Ends([rec EXCEPT !.err = "TypeError"])
              ELSE IF remote_file = None \/ source_parent = None
              THEN Ends([rec EXCEPT !.err = "RemotePathNotFound"])
              ELSE MoveFound(source, dest, source_parent, dest_parent, remote_file)

\* the paths a command can be given that name something: not the root
NamedPaths == Paths \ {<< >>}

Next ==
    \/ \E path \in Paths, trashed \in BOOLEAN : Resolve(path, trashed)
    \/ \E path \in Paths, all \in BOOLEAN : list_directory(path, all)
    \/ \E path \in Paths, delete \in BOOLEAN : remove_file(path, delete)
    \/ \E path \in Paths : recover_file(path)
    \/ \E source \in NamedPaths, dest \in NamedPaths : move_remote_file(source, dest)

Spec == Init /\ [][Next]_vars

---------------------------------------------------------------------------
(* The local disk *)

\* pathlib on the local disk: Path.exists, Path.is_file, Path.is_dir
exists(p) == p = << >> \/ p \in disk.files \cup disk.dirs
is_file(p) == p \in disk.files
is_dir(p) == p = << >> \/ p \in disk.dirs

\* Path.iterdir: the entries of a directory
iterdir(p) == {q \in disk.files \cup disk.dirs : q # << >> /\ Parent(q) = p}

\* the orders iterdir can give the entries in
Orders(entries) ==
    {s \in [1..Cardinality(entries) -> entries] :
        \A i, j \in 1..Cardinality(entries) : i # j => s[i] # s[j]}

\* the directory /a with the file /a/a, the directory /a/b and the files
\* /a/b/a and /a/b/b; the same with the file /b beside it
Disks ==
    {[files |-> {<<"a", "a">>, <<"a", "b", "a">>, <<"a", "b", "b">>} \cup fs,
      dirs |-> {<<"a">>, <<"a", "b">>}] : fs \in {{}, {<<"b">>}}}

\* the length of the longest path of a local file
DiskDepth ==
    IF disk.files = {} THEN 0
    ELSE CHOOSE n \in 1..MaxDepth :
            /\ \E f \in disk.files : Len(f) = n
            /\ \A f \in disk.files : Len(f) <= n

---------------------------------------------------------------------------
(* commands.py: upload_local_files; cloud.py: create_file *)

\* one call made on the remote or on the disk
Call(c, i, p) == [call |-> c, id |-> i, path |-> p, what |-> "", who |-> ""]

\* a call that is still to come: of DRIVE.create_file(local, remote), of
\* DRIVE.get_remote_file(remote) at the top of a recursive call, or the end
\* of a recursion that does not return
Pending(c, local, remote_path) == [call |-> c, local |-> local, remote |-> remote_path]

\* the first directory among the entries, 0 when there is none
FirstDir(children) ==
    IF \E i \in 1..Len(children) : is_dir(children[i])
    THEN CHOOSE i \in 1..Len(children) :
            /\ is_dir(children[i])
            /\ \A j \in 1..(i - 1) : ~is_dir(children[j])
    ELSE 0

\* The calls of the loop of upload_local_files over the entries of the local
\* directory, in the order iterdir gives them.  The recursive call is made
\* with recur_args['<LOCAL'] set: args['<LOCAL>'] is what it was, so the call
\* lists the same local directory again, one remote folder deeper, and never
\* returns.  Once the remote path is longer than every local file's path no
\* create_file can pass its is_file test any more: what is left of the
\* recursion is its end in an uncaught error.
RECURSIVE folder_calls(_, _, _)
folder_calls(remote_path, children, recursive) ==
    LET d == IF recursive THEN FirstDir(children) ELSE 0
        before == SubSeq(children, 1, IF d = 0 THEN Len(children) ELSE d - 1)
        fs == SelectSeq(before, is_file)
        creates == [i \in 1..Len(fs) |->
                      Pending("create_file", fs[i], Append(remote_path, Name(fs[i])))]
        deeper == Append(remote_path, Name(children[d]))
    IN  IF d = 0 THEN creates
        ELSE IF Len(deeper) >= DiskDepth
        THEN creates \o <<Pending("RecursionError", << >>, deeper)>>
        ELSE creates \o <<Pending("get_remote_file", << >>, deeper)>>
                     \o folder_calls(deeper, children, recursive)

\* push [--folder] [--recursive] local remote: up to the loop
upload_local_files(local, remote_path, folder, recursive) ==
    /\ Ready
    /\ ops' = ops + 1
    /\ io' = {}
    /\ UNCHANGED <<remote, files, trash, disk, perms, exportLinks, REMOTE_FILE_PATH>>
    /\ LET rec == [Quiet EXCEPT !.op = "push", !.path = remote_path, !.local = local,
                                !.folder = folder, !.flag = recursive]
           stop(r) == /\ last' = r
                      /\ session' = After(r.err)
                      /\ todo' = << >>
           go(r) == /\ last' = r
                    /\ session' = "running"
                    /\ IF folder /\ is_dir(local)
                       THEN \E children \in Orders(iterdir(local)) :
                               todo' = folder_calls(remote_path, children, recursive)
                       ELSE IF is_file(local)
                       THEN todo' = <<Pending("create_file", local, remote_path)>>
                       \* a directory without --folder: a message is printed
                       ELSE todo' = << >>
       IN  IF ~exists(local) THEN stop([rec EXCEPT !.err = "LocalPathNotFound"])
           ELSE \E found \in get_remote_file(remote_path, FALSE) :
                  IF found = TypeError
                  THEN stop([rec EXCEPT !.ret = found, !.err = "TypeError"])
                  ELSE IF found = None
                  THEN \E decision \in ansi_yes_no_prompt :
                         IF Declines(decision)
                         THEN stop([rec EXCEPT !.asked = TRUE, !.err = "declined"])
                         ELSE go([rec EXCEPT !.asked = TRUE])
                  ELSE go([rec EXCEPT !.ret = found])

\* the command goes on with the next call, or ends in an uncaught error
Goes(err) ==
    /\ last' = [last EXCEPT !.err = err]
    /\ session' = After(err)
    /\ todo' = IF err = "ok" THEN Tail(todo) ELSE << >>

NextCall(c) == session = "running" /\ todo # << >> /\ Head(todo).call = c

\* DRIVE.get_remote_file(remote_path) at the top of a recursive call
recursed_lookup ==
    /\ NextCall("get_remote_file")
    /\ UNCHANGED <<ops, remote, files, trash, disk, io, perms, exportLinks, REMOTE_FILE_PATH>>
    /\ \E found \in get_remote_file(Head(todo).remote, FALSE) :
          Goes(IF found = TypeError THEN "TypeError" ELSE "ok")

\* the recursion that lists the same directory again and again ends there
recursion_limit ==
    /\ NextCall("RecursionError")
    /\ UNCHANGED <<ops, remote, files, trash, disk, io, perms, exportLinks, REMOTE_FILE_PATH>>
    /\ Goes("RecursionError")

\* the calls that created the folders of made
Folders(made) == {Call("create_folder", m.id, m.path) : m \in made.made}

\* DRIVE.create_file(local_path, remote_path)
create_file ==
    /\ NextCall("create_file")
    /\ UNCHANGED <<ops, disk, perms, exportLinks, REMOTE_FILE_PATH>>
    /\ LET local_path == Head(todo).local
           remote_path == Head(todo).remote
       IN  \* Path(remote_path).is_file(): asked of the local disk
           IF ~is_file(remote_path)
           THEN Goes("ok") /\ UNCHANGED <<remote, files, trash, io>>
           ELSE \E duplicate \in get_remote_file(remote_path, FALSE) :
                  IF duplicate = TypeError
                  THEN Goes("TypeError") /\ UNCHANGED <<remote, files, trash, io>>
                  ELSE IF duplicate # None
                  THEN \E fails \in ListingFails :
                         /\ remote' = remote
                         /\ io' = io \cup {Call("upload", duplicate, local_path)}
                         /\ files' = update_file_manifest(remote, fails).files
                         /\ trash' = update_file_manifest(remote, fails).trash
                         /\ Goes(IF fails = "none" THEN "ok" ELSE "ApiRequestError")
                  ELSE \E made \in create_file_path(Parent(remote_path), remote) :
                         /\ ~made.full
                         /\ IF made.ret = TypeError
                            THEN /\ remote' = made.reg
                                 /\ io' = io \cup Folders(made)
                                 /\ UNCHANGED <<files, trash>>
                                 /\ Goes("TypeError")
                            ELSE \E first \in IF Parent(remote_path) = << >>
                                              THEN {"skipped"} ELSE ListingFails :
                                   LET cache == IF first = "skipped"
                                                THEN [files |-> files, trash |-> trash]
                                                ELSE update_file_manifest(made.reg, first)
                                       id == FreshId(made.reg)
                                       file == Node(id, Name(remote_path),
                                                    IF made.ret = None THEN {Root}
                                                    ELSE {made.ret}, FALSE, FALSE)
                                   IN  IF first \in {"live", "trashed"}
                                       THEN /\ remote' = made.reg
                                            /\ io' = io \cup Folders(made)
                                            /\ files' = cache.files
                                            /\ trash' = cache.trash
                                            /\ Goes("ApiRequestError")
                                       ELSE /\ id # None
                                            /\ \E fails \in ListingFails :
                                                 /\ remote' = made.reg \cup {file}
                                                 /\ io' = io \cup Folders(made) \cup
                                                       {Call("create_file", id, remote_path),
                                                        Call("upload", id, local_path)}
                                                 /\ files' = IF fails = "live" THEN cache.files
                                                             ELSE ListLive(made.reg \cup {file})
                                                 /\ trash' = IF fails = "none"
                                                             THEN ListTrashed(made.reg \cup {file})
                                                             ELSE cache.trash
                                                 /\ Goes(IF fails = "none" THEN "ok"
                                                         ELSE "ApiRequestError")

\* DRIVE.create_file_path(directory_path), called from outside the recursion
CreateFolderPath(directory_path) ==
    /\ Ready
    /\ ops' = ops + 1
    /\ UNCHANGED <<disk, todo, perms, exportLinks, REMOTE_FILE_PATH>>
    /\ \E made \in create_file_path(directory_path, remote) :
          LET rec == [Quiet EXCEPT !.op = "mkpath", !.path = directory_path,
                                   !.ret = made.ret]
          IN  /\ ~made.full
              /\ io' = Folders(made)
              /\ IF made.ret = TypeError
                 THEN /\ remote' = made.reg
                      /\ UNCHANGED <<files, trash>>
                      /\ last' = [rec EXCEPT !.err = "TypeError"]
                      /\ session' = "crashed"
                 ELSE IF directory_path = << >>
                 THEN Ends(rec)
                 ELSE \E fails \in ListingFails : Refreshed(made.reg, fails, rec)

\* the registries a push starts from: an empty drive, a drive with the folder
\* /a or the folder /b, and a drive with the folder /a and the file /a/a
PushSeeds ==
    {{}, {Node(1, "a", {Root}, TRUE, FALSE)}, {Node(1, "b", {Root}, TRUE, FALSE)},
     {Node(1, "a", {Root}, TRUE, FALSE), Node(2, "a", {1}, FALSE, FALSE)}}

\* the local paths a push is given: what is on the disk, and a path that is
\* not
LocalPaths == {<<"b", "b">>} \cup disk.files \cup disk.dirs

InitPush ==
    /\ remote \in PushSeeds
    /\ files = ListLive(remote)
    /\ trash = ListTrashed(remote)
    /\ Idle
    /\ disk \in Disks
    /\ perms = {}
    /\ exportLinks = [i \in Ids |-> Plain]

NextPush ==
    \/ \E local \in LocalPaths, remote_path \in Paths, folder \in BOOLEAN,
          recursive \in BOOLEAN : upload_local_files(local, remote_path, folder, recursive)
    \/ recursed_lookup
    \/ recursion_limit
    \/ create_file
    \/ \E directory_path \in Paths : CreateFolderPath(directory_path)

SpecPush == InitPush /\ [][NextPush]_vars

---------------------------------------------------------------------------
(* commands.py: download_remote_file; cloud.py: download_file *)

\* cloud.py: the table from file extensions to export formats
SUPPORTED_FILE_TYPES ==
    ".html" :> "text/html" @@
    ".txt" :> "plain_text" @@
    ".rtf" :> "application/rtf" @@
    ".odt" :> "application/vnd.oasis.opendocument.text" @@
    ".docx" :> "application/vnd.openxmlformats-officedocument.wordprocessingml.document" @@
    ".epub" :> "application/epub+zip" @@
    ".pdf" :> "application/pdf" @@
    ".xlsx" :> "application/vnd.openxmlformats-officedocument.spreadsheetml.sheet" @@
    ".ods" :> "application/x-vnd.oasis.opendocument.spreadsheet" @@
    ".tsv" :> "text/tab-separated-values" @@
    ".csv" :> "text/csv" @@
    ".jpg" :> "images/jpeg" @@
    ".png" :> "images/png" @@
    ".svg" :> "images/svg+xml" @@
    ".pptx" :> "application/vnd.openxmlformats-officedocument.presentationml.presentation" @@
    ".odp" :> "application/vnd.oasis.opendocument.presentation" @@
    ".json" :> "application/vnd.google-apps.script+json"

\* pathlib: Path.suffix of a file name: from its last dot on, '' when the
\* name has no dot or only a leading or a trailing one
suffix(name) ==
    LET dots == {i \in 1..Len(name) : SubSeq(name, i, i) = "."}
        i == CHOOSE d \in dots : \A e \in dots : e <= d
    IN  IF dots = {} THEN ""
        ELSE IF 1 < i /\ i < Len(name) THEN SubSeq(name, i, Len(name))
        ELSE ""

\* Path(str(local_path) + file_suffix)
with_suffix(local_path, file_suffix) ==
    Append(Parent(local_path), Name(local_path) \o file_suffix)

\* the same test without the look at the node's export links
suffix_is_known(path_suffix, links) == path_suffix \in DOMAIN SUPPORTED_FILE_TYPES

\* SUPPORTED_FILE_TYPES.get(path_suffix) in remote_file['exportLinks'].keys()
suffix_is_offered(path_suffix, links) ==
    /\ path_suffix \in DOMAIN SUPPORTED_FILE_TYPES
    /\ SUPPORTED_FILE_TYPES[path_suffix] \in links

\* resolve_file_conversion: the extensions the user is shown; the answer is
\* one of them, any other input asks again
conversion_opts(links) ==
    {ext \in DOMAIN SUPPORTED_FILE_TYPES : SUPPORTED_FILE_TYPES[ext] \in links}

\* a Google document with the export formats of links
Doc(links) == [apps |-> TRUE, links |-> links]

\* remote_file['mimeType'].startswith('application/vnd.google-apps.')
proprietary(f) == f.folder \/ exportLinks[f.id].apps

\* the cached file with this id
Cached(id) == CHOOSE f \in files : f.id = id

\* one call with what it asked for
CallFor(c, i, p, what) == [call |-> c, id |-> i, path |-> p, what |-> what, who |-> ""]

\* the calls of download_file for the children of a folder in one order
\* (a sequence of ids), with the recursive calls of download_remote_file
\* made in between: every sequence of calls the orders of the folders below
\* allow
RECURSIVE children_calls(_, _, _, _)
RECURSIVE pull_calls(_, _, _, _)
children_calls(order, remote_path, local_path, recursive) ==
    IF order = << >> THEN {<< >>}
    ELSE LET drive_file == Cached(Head(order))
             absolute_local == Append(local_path, drive_file.title)
             absolute_remote == Append(remote_path, drive_file.title)
             first == IF drive_file.folder /\ recursive
                      THEN pull_calls(drive_file.id, absolute_remote, absolute_local,
                                      recursive)
                      ELSE {<<Pending("download_file", absolute_local, absolute_remote)>>}
         IN  {a \o b : a \in first,
                       b \in children_calls(Tail(order), remote_path, local_path, recursive)}

pull_calls(folder_id, remote_path, local_path, recursive) ==
    UNION {children_calls(order, remote_path, local_path, recursive) :
              order \in Orders(get_object_children(folder_id, FALSE))}

\* pull [--folder] [--recursive] remote local: up to the loop
download_remote_file(remote_path, local_path, folder, recursive) ==
    /\ Ready
    /\ ops < MaxPulls
    /\ ops' = ops + 1
    /\ io' = {}
    /\ UNCHANGED <<remote, files, trash, disk, perms, exportLinks, REMOTE_FILE_PATH>>
    /\ \E remote_file \in get_remote_file(remote_path, FALSE) :
          LET rec == [Quiet EXCEPT !.op = "pull", !.path = remote_path,
                                   !.local = local_path, !.folder = folder,
                                   !.flag = recursive, !.ret = remote_file]
              stop(r) == /\ last' = r
                         /\ session' = After(r.err)
                         /\ todo' = << >>
              go(r) ==
                  IF remote_file = None THEN stop([r EXCEPT !.err = "RemotePathNotFound"])
                  \* the root reference has no 'mimeType'
                  ELSE IF remote_file = Root THEN stop([r EXCEPT !.err = "KeyError"])
                  ELSE IF folder /\ Cached(remote_file).folder
                  THEN /\ last' = r
                       /\ session' = "running"
                       /\ todo' \in pull_calls(remote_file, remote_path, local_path,
                                               recursive)
                  \* a folder without --folder: a message is printed
                  ELSE IF Cached(remote_file).folder THEN stop(r)
                  ELSE /\ last' = r
                       /\ session' = "running"
                       /\ todo' = <<Pending("download_file", local_path, remote_path)>>
          IN  IF remote_file = TypeError THEN stop([rec EXCEPT !.err = "TypeError"])
              ELSE IF ~exists(Parent(local_path))
              THEN \E decision \in ansi_yes_no_prompt :
                     IF Declines(decision)
                     THEN stop([rec EXCEPT !.asked = TRUE, !.err = "declined"])
                     ELSE go([rec EXCEPT !.asked = TRUE])
              ELSE go(rec)

\* the disk with one more directory or one more file
mkdir(d, p) == [d EXCEPT !.dirs = @ \cup {p}]
written(d, p) == [d EXCEPT !.files = @ \cup {p}]

\* GetContentFile(local_path): the error of writing there, "ok" when it can
write_error(d, local_path) ==
    IF local_path = << >> \/ local_path \in d.dirs THEN "IsADirectoryError"
    ELSE IF Parent(local_path) \in d.files THEN "NotADirectoryError"
    ELSE "ok"

\* DRIVE.download_file(remote_path, local_path)
download_file ==
    /\ NextCall("download_file")
    /\ UNCHANGED <<ops, remote, files, trash, perms, exportLinks, REMOTE_FILE_PATH>>
    /\ \E found \in get_remote_file(Head(todo).remote, FALSE) :
          LET local_path == Head(todo).local
              parent_dir == Parent(local_path)
              remote_file == Cached(found)
              made == IF exists(parent_dir) THEN disk ELSE mkdir(disk, parent_dir)
              asked_for == {CallFor("download_file", found, local_path, "")}
              links == exportLinks[found].links
              get(target, what) ==
                  /\ io' = io \cup asked_for \cup
                           {CallFor("GetContentFile", found, target, what)}
                  /\ disk' = IF write_error(made, target) = "ok"
                             THEN written(made, target) ELSE made
                  /\ Goes(write_error(made, target))
          IN  IF found = TypeError
              THEN Goes("TypeError") /\ UNCHANGED <<disk, io>>
              ELSE IF found = None
              THEN Goes("RemotePathNotFound") /\ UNCHANGED <<disk, io>>
              \* parent_dir.mkdir() makes one directory only
              ELSE IF ~exists(parent_dir) /\ ~exists(Parent(parent_dir))
              THEN Goes("FileNotFoundError") /\ io' = io \cup asked_for /\ UNCHANGED disk
              ELSE IF ~proprietary(remote_file) THEN get(local_path, "")
              \* a folder has no 'exportLinks'
              ELSE IF remote_file.folder
              THEN Goes("KeyError") /\ io' = io \cup asked_for /\ disk' = made
              ELSE IF suffix_is_offered(suffix(Name(local_path)), links)
              THEN get(local_path, SUPPORTED_FILE_TYPES[suffix(Name(local_path))])
              \* nothing to choose from: the prompt asks without end
              ELSE IF conversion_opts(links) = {}
              THEN /\ io' = io \cup asked_for
                   /\ disk' = made
                   /\ last' = [last EXCEPT !.err = "asks without end"]
                   /\ session' = "asking"
                   /\ todo' = << >>
              ELSE \E file_suffix \in conversion_opts(links) :
                     /\ io' = io \cup asked_for \cup
                              {CallFor("choose", found, local_path, ext) :
                                  ext \in conversion_opts(links)} \cup
                              {CallFor("GetContentFile", found,
                                       with_suffix(local_path, file_suffix),
                                       SUPPORTED_FILE_TYPES[file_suffix])}
                     /\ disk' = IF write_error(made, with_suffix(local_path, file_suffix)) = "ok"
                                THEN written(made, with_suffix(local_path, file_suffix))
                                ELSE made
                     /\ Goes(write_error(made, with_suffix(local_path, file_suffix)))

\* the export formats of a Google document, and of a drawing
DocLinks == {"text/html", "text/plain", "application/rtf", "application/pdf",
             "application/vnd.oasis.opendocument.text",
             "application/vnd.openxmlformats-officedocument.wordprocessingml.document",
             "application/epub+zip", "application/zip"}
DrawingLinks == {"image/svg+xml", "image/png", "image/jpeg", "application/pdf"}

\* a form is of a proprietary kind and has nothing to export to
Kinds == {Plain, Doc(DocLinks), Doc(DrawingLinks), Doc({})}

\* the folder /a with the file /a/a and the folder /a/b with the file /a/b/a
PullSeed ==
    {Node(1, "a", {Root}, TRUE, FALSE), Node(2, "a", {1}, FALSE, FALSE),
     Node(3, "b", {1}, TRUE, FALSE), Node(4, "a", {3}, FALSE, FALSE)}

\* the local disks a pull starts from: nothing but the root, or the
\* directory /d as well
PullDisks == {EmptyDisk, [files |-> {}, dirs |-> {<<"d">>}]}

\* the local paths a pull is given
LocalTargets == {<<"d">>, <<"f.pdf">>, <<"f.txt">>, <<"d", "f.docx">>, <<"d", "e", "f">>}

InitPull ==
    /\ remote = PullSeed
    /\ files = ListLive(remote)
    /\ trash = ListTrashed(remote)
    /\ Idle
    /\ disk \in PullDisks
    /\ perms = {}
    /\ \E k2 \in Kinds, k4 \in Kinds :
          exportLinks = [i \in Ids |-> IF i = 2 THEN k2 ELSE IF i = 4 THEN k4 ELSE Plain]

NextPull ==
    \/ \E remote_path \in Paths, local_path \in LocalTargets, folder \in BOOLEAN,
          recursive \in BOOLEAN :
          download_remote_file(remote_path, local_path, folder, recursive)
    \/ download_file

SpecPull == InitPull /\ [][NextPull]_vars

---------------------------------------------------------------------------
(* commands.py: manage_permissions *)

\* the addressees a grant or a revocation can name
Emails == {"amy@mail", "bob@mail"}

\* the roles of the usage line, and '' for none of them
Roles == {"reader", "writer", "owner"}

\* the permission for (node, addressee): Drive has at most one; the
\* link-wide permission has the id 'anyoneWithLink' and no emailAddress
Grant(node, who, role) == [id |-> node, who |-> who, role |-> role]

\* What docopt returns for the usage line of share,
\*   share [--add | --delete] [--link] [--reader | --writer | --owner]
\*         (--remote=<REMOTE> | <REMOTE>) [EMAILS ...]
\* a dictionary with the options and arguments of the usage line.  The
\* usage line has no [options], so the -q, --quiet of the Options section
\* is no key of it, and an input with -q is rejected by docopt.
docopt_share(mode, link, role, remote_path, EMAILS) ==
    [add |-> mode = "add", delete |-> mode = "delete", link |-> link,
     reader |-> role = "reader", writer |-> role = "writer", owner |-> role = "owner",
     REMOTE |-> remote_path, EMAILS |-> EMAILS]

\* the loop over args.items(): the role flag that is set, '' for role_input
\* None
role_input(args) ==
    IF args.owner THEN "owner" ELSE IF args.writer THEN "writer"
    ELSE IF args.reader THEN "reader" ELSE ""

\* args['--quiet']: its value, or the KeyError of a key that is not there
NotQuiet(args) ==
    IF "quiet" \in DOMAIN args THEN IF args.quiet THEN "quiet" ELSE "loud"
    ELSE "KeyError"

\* one call on a permission of node i
PermissionCall(c, i, who, role) ==
    [call |-> c, id |-> i, path |-> << >>, what |-> role, who |-> who]

\* the id of the permission that InsertPermission makes for a value: of the
\* type 'anyone' with withLink it is 'anyoneWithLink'
PermissionId(value) == IF value = "anyone" THEN "anyoneWithLink" ELSE value

\* remote_file.InsertPermission for every addressee of who_can_access
Inserted(node, who_can_access, role) ==
    {p \in perms : ~(p.id = node /\ \E who \in who_can_access : p.who = PermissionId(who))}
        \cup {Grant(node, PermissionId(who), role) : who \in who_can_access}

\* share ...: args is what docopt made of the input
manage_permissions(mode, link, role, remote_path, EMAILS) ==
    /\ Ready
    /\ ops' = ops + 1
    /\ UNCHANGED <<remote, files, trash, disk, todo, exportLinks, REMOTE_FILE_PATH>>
    /\ \E remote_file \in get_remote_file(remote_path, FALSE) :
          LET args == docopt_share(mode, link, role, remote_path, EMAILS)
              rec == [Quiet EXCEPT !.op = "share", !.path = args.REMOTE,
                                   !.ret = remote_file, !.args = args]
              stop(err) == /\ last' = [rec EXCEPT !.err = err]
                           /\ session' = After(err)
              none == perms' = perms /\ io' = {}
              who_can_access == IF args.link THEN {"anyone"} ELSE args.EMAILS
              granted == {p \in perms : p.id = remote_file /\ p.who \in args.EMAILS}
              valid_users == {p.who : p \in granted}
          IN  IF remote_file = TypeError THEN stop("TypeError") /\ none
              ELSE IF remote_file = None THEN stop("RemotePathNotFound") /\ none
              ELSE IF args.add
              THEN IF role_input(args) = "" THEN stop("NoRoleSelected") /\ none
                   \* the root reference is a dictionary, it has no InsertPermission
                   ELSE IF remote_file = Root /\ who_can_access # {}
                   THEN stop("AttributeError") /\ none
                   ELSE /\ perms' = IF remote_file = Root THEN perms
                                    ELSE Inserted(remote_file, who_can_access, role_input(args))
                        /\ io' = {PermissionCall("InsertPermission", remote_file, who,
                                                 role_input(args)) : who \in who_can_access}
                        /\ IF who_can_access # {} THEN stop("ok")
                           ELSE IF NotQuiet(args) = "KeyError" THEN stop("KeyError")
                           ELSE IF NotQuiet(args) = "loud" THEN stop("NoTargetHostGiven")
                           ELSE stop("ok")
              ELSE IF args.delete
              THEN IF remote_file = Root THEN stop("AttributeError") /\ none
                   ELSE IF ~args.link
                   THEN /\ perms' = perms \ granted
                        /\ io' = {PermissionCall("GetPermissions", remote_file, "", "")} \cup
                                 {PermissionCall("DeletePermission", remote_file, p.who, "") :
                                     p \in granted}
                        /\ IF valid_users = args.EMAILS THEN stop("ok")
                           ELSE IF NotQuiet(args) = "KeyError" THEN stop("KeyError")
                           ELSE IF NotQuiet(args) = "loud" THEN stop("PermissionNonExistent")
                           ELSE stop("ok")
                   ELSE /\ perms' = {p \in perms : ~(p.id = remote_file
                                                     /\ p.who = "anyoneWithLink")}
                        /\ io' = {PermissionCall("DeletePermission", remote_file,
                                                 "anyoneWithLink", "")}
                        \* the remote knows no such permission: an API error
                        /\ IF \E p \in perms : p.id = remote_file /\ p.who = "anyoneWithLink"
                           THEN stop("ok") ELSE stop("ApiRequestError")
              ELSE stop("ok") /\ none

\* the folder /a with the file /a/a, and the file /b
ShareSeed ==
    {Node(1, "a", {Root}, TRUE, FALSE), Node(2, "a", {1}, FALSE, FALSE),
     Node(3, "b", {Root}, FALSE, FALSE)}

\* the permissions the file /b can have before the first command, besides
\* its owner's
ShareGrants ==
    {Grant(3, "amy@mail", "writer"), Grant(3, "bob@mail", "reader"),
     Grant(3, "anyoneWithLink", "reader")}

\* the remote paths share is given: the root, the file /b, and no node
SharePaths == {<< >>, <<"b">>, <<"b", "b">>}

InitShare ==
    /\ remote = ShareSeed
    /\ files = ListLive(remote)
    /\ trash = ListTrashed(remote)
    /\ Idle
    /\ disk = EmptyDisk
    /\ \E granted \in SUBSET ShareGrants :
          perms = granted \cup {Grant(2, "amy@mail", "reader")}
    /\ exportLinks = [i \in Ids |-> Plain]

NextShare ==
    \E mode \in {"add", "delete", ""}, link \in BOOLEAN, role \in Roles \cup {""},
       remote_path \in SharePaths, EMAILS \in SUBSET Emails :
        manage_permissions(mode, link, role, remote_path, EMAILS)

SpecShare == InitShare /\ [][NextShare]_vars

---------------------------------------------------------------------------
(* commands.py: search_remote_file *)

\* the terms search is given: '' is in every title
Terms == {"", "a", "b", "ab"}

\* strict_match: user_input in title
strict_match(user_input, title) ==
    \E i \in 0..(Len(title) - Len(user_input)) :
        SubSeq(title, i + 1, i + Len(user_input)) = user_input

\* fuzzy_match: 80 <= fuzz.partial_token_sort_ratio(user_input, title); the
\* titles the library rates that high are `close`
fuzzy_match(close, title) == title \in close

\* an entry of the list determine_file_path returns: the walk down the
\* parents (ids) and the path it spells; or the way the call ends instead
Entry(walk, path) == [walk |-> walk, path |-> path, err |-> "ok"]
Raises(err) == [walk |-> << >>, path |-> << >>, err |-> err]

\* determine_file_path following only the parent with the smallest id
RECURSIVE determine_file_path_one_parent(_, _)
determine_file_path_one_parent(id, depth) ==
    IF drive_root = None THEN {Raises("TypeError")}
    ELSE IF id = drive_root THEN {Entry(<< >>, << >>)}
    ELSE IF depth = 0 THEN {Raises("RecursionError")}
    ELSE LET remote_file == CHOOSE f \in files : f.id = id
             first == {p \in remote_file.parents : \A q \in remote_file.parents : p <= q}
             parents == {IF \E f \in files : f.id = p THEN p ELSE drive_root : p \in first}
             above == UNION {determine_file_path_one_parent(p, depth - 1) : p \in parents}
         IN  {IF r.err = "ok"
              THEN Entry(Append(r.walk, id), Append(r.path, remote_file.title))
              ELSE r : r \in above}

\* determine_file_path(remote_file): one entry of the list for every walk
\* down the parents from the root to the file, with the path it spells.  A
\* parent that is not in self.files is taken for the root.  TypeError when
\* drive_root is None; RecursionError when the walk up the parents does not
\* end within depth steps (the parents form a cycle).
RECURSIVE determine_file_path(_, _)
determine_file_path(id, depth) ==
    IF drive_root = None THEN {Raises("TypeError")}
    ELSE IF id = drive_root THEN {Entry(<< >>, << >>)}
    ELSE IF depth = 0 THEN {Raises("RecursionError")}
    ELSE LET remote_file == CHOOSE f \in files : f.id = id
             parents == {IF \E f \in files : f.id = p THEN p ELSE drive_root :
                            p \in remote_file.parents}
             above == UNION {determine_file_path(p, depth - 1) : p \in parents}
         IN  {IF r.err = "ok"
              THEN Entry(Append(r.walk, id), Append(r.path, remote_file.title))
              ELSE r : r \in above}

\* search [--fuzzy] TERM: the paths printed, each with the file it is
\* printed for
search_remote_file(TERM, fuzzy, close) ==
    /\ Ready
    /\ ops' = ops + 1
    /\ RegistryOnly
    /\ LET matched == {f \in files : IF fuzzy THEN fuzzy_match(close, f.title)
                                     ELSE strict_match(TERM, f.title)}
           found == UNION {{[id |-> f.id, walk |-> r.walk, path |-> r.path, err |-> r.err] :
                               r \in determine_file_path(f.id, MaxNodes)} : f \in matched}
           rec == [Quiet EXCEPT !.op = "search", !.flag = fuzzy,
                                !.args = [TERM |-> TERM]]
       IN  IF \E r \in found : r.err = "TypeError"
           THEN Ends([rec EXCEPT !.err = "TypeError"])
           ELSE IF \E r \in found : r.err = "RecursionError"
           THEN Ends([rec EXCEPT !.err = "RecursionError"])
           ELSE Ends([rec EXCEPT !.cands = found])

\* the registries a search starts from: those of Seeds, and the folder /a
\* with the folders /a/a and /a/b and a file b in both of them
SearchSeeds ==
    Seeds \cup {{Node(1, "a", {Root}, TRUE, FALSE), Node(2, "a", {1}, TRUE, FALSE),
                 Node(3, "b", {1}, TRUE, FALSE), Node(4, "b", {2, 3}, FALSE, FALSE)}}

InitSearch ==
    /\ remote \in SearchSeeds
    /\ files = ListLive(remote)
    /\ trash = ListTrashed(remote)
    /\ Idle
    /\ disk = EmptyDisk
    /\ perms = {}
    /\ exportLinks = [i \in Ids |-> Plain]

NextSearch ==
    \E TERM \in Terms, fuzzy \in BOOLEAN, close \in SUBSET Names :
        search_remote_file(TERM, fuzzy, close)

SpecSearch == InitSearch /\ [][NextSearch]_vars

---------------------------------------------------------------------------
(* cloud.py: resolve_mnemonic_conflict, one answer after the other *)

\* what the user can paste at the prompt: the id of a file, the id of the
\* root, or something that is no id at all
Responses == 0..(MaxNodes + 1)

\* answers typed in one call of the prompt loop
MaxAnswers == 2

Answers == UNION {[1..n -> Responses] : n \in 0..MaxAnswers}

\* the loop taking the smallest id for an answer that is no key
RECURSIVE conflict_loop_default(_, _)
conflict_loop_default(file_ids, responses) ==
    IF responses = << >> THEN None
    ELSE IF Head(responses) \in file_ids THEN Head(responses)
    ELSE CHOOSE i \in file_ids : \A j \in file_ids : i <= j

\* the `while 1` of resolve_mnemonic_conflict on the answers typed so far:
\* the file returned, None while the prompt is still up
RECURSIVE conflict_loop(_, _)
conflict_loop(file_ids, responses) ==
    IF responses = << >> THEN None
    ELSE IF Head(responses) \in file_ids THEN Head(responses)
    ELSE conflict_loop(file_ids, Tail(responses))

\* DRIVE.resolve_mnemonic_conflict(matching_filenames) with these answers
AnswerConflict(matching_filenames, responses) ==
    /\ Ready
    /\ ops' = ops + 1
    /\ RegistryOnly
    /\ matching_filenames # {}
    /\ LET file_ids == {f.id : f \in matching_filenames}
           ret == conflict_loop(file_ids, responses)
       IN  /\ last' = [Quiet EXCEPT !.op = "conflict", !.cands = file_ids, !.ret = ret,
                                    !.args = [responses |-> responses],
                                    !.err = IF ret = None THEN "asks" ELSE "ok"]
           /\ session' = IF ret = None THEN "asking" ELSE "running"
           /\ UNCHANGED <<remote, files, trash>>

NextAsk ==
    \E matching_filenames \in SUBSET files, responses \in Answers :
        AnswerConflict(matching_filenames, responses)

SpecAsk == Init /\ [][NextAsk]_vars

---------------------------------------------------------------------------
(* commands.py: change_directory *)

\* str.startswith
startswith(s, prefix) ==
    Len(s) >= Len(prefix) /\ SubSeq(s, 1, Len(prefix)) = prefix

\* pathlib: the components of a path string; empty components and '.'
\* collapse, '..' stays a component
RECURSIVE parts(_)
parts(s) ==
    LET slashes == {i \in 1..Len(s) : SubSeq(s, i, i) = "/"}
        first == CHOOSE i \in slashes : \A j \in slashes : i <= j
        one(c) == IF c \in {"", "."} THEN << >> ELSE <<c>>
    IN  IF slashes = {} THEN one(s)
        ELSE one(SubSeq(s, 1, first - 1)) \o parts(SubSeq(s, first + 1, Len(s)))

\* pathlib: REMOTE_FILE_PATH / user_input_path
joined(path, s) == IF startswith(s, "/") THEN parts(s) ELSE path \o parts(s)

\* what is typed after cd
CdInputs == {"", "/", "/a", "/b", "/a/a", "/b/a", "a", "b", "a/b",
             "..", "../", "../a", "../b", "../.."}

\* change_directory before the look-up: REMOTE_FILE_PATH as it is assigned
\* for a leading '/' or '../', and what is left of the input
cd_start(user_input_path) ==
    IF startswith(user_input_path, "/")
    THEN [cwd |-> << >>, rest |-> SubSeq(user_input_path, 2, Len(user_input_path))]
    ELSE IF startswith(user_input_path, "../")
    THEN [cwd |-> Parent(REMOTE_FILE_PATH),
          rest |-> SubSeq(user_input_path, 4, Len(user_input_path))]
    ELSE [cwd |-> REMOTE_FILE_PATH, rest |-> user_input_path]

\* cd PATH
change_directory(user_input_path) ==
    /\ Ready
    /\ ops' = ops + 1
    /\ UNCHANGED <<remote, files, trash, disk, todo, io, perms, exportLinks>>
    /\ LET rec == [Quiet EXCEPT !.op = "cd", !.args = [PATH |-> user_input_path]]
           path_to_follow == joined(cd_start(user_input_path).cwd,
                                    cd_start(user_input_path).rest)
           stop(folder, err, cwd) ==
               /\ last' = [rec EXCEPT !.path = path_to_follow, !.ret = folder, !.err = err]
               /\ session' = After(err)
               /\ REMOTE_FILE_PATH' = cwd
       IN  IF user_input_path = ""
           THEN /\ last' = [rec EXCEPT !.err = "PathNotSpecified"]
                /\ session' = "running"
                /\ UNCHANGED REMOTE_FILE_PATH
           ELSE \E folder \in get_remote_file(path_to_follow, FALSE) :
                  IF folder = TypeError
                  THEN stop(folder, "TypeError", cd_start(user_input_path).cwd)
                  ELSE IF folder = None
                  THEN stop(folder, "RemotePathNotFound", cd_start(user_input_path).cwd)
                  ELSE IF folder = drive_root \/ \E f \in files : f.id = folder /\ f.folder
                  THEN stop(folder, "ok", path_to_follow)
                  ELSE stop(folder, "RemotePathIsFile", cd_start(user_input_path).cwd)

NextCd == \E user_input_path \in CdInputs : change_directory(user_input_path)

SpecCd == Init /\ [][NextCd]_vars

---------------------------------------------------------------------------
(* commands.py: ansi_yes_no_prompt and the test of what it returns *)

MaxTyped == 2

\* what the user types at one prompt, line after line
Typed == UNION {[1..n -> UserInputs] : n \in 0..MaxTyped}

\* the while loop of ansi_yes_no_prompt: the number of the first line that
\* `decision in 'ync'` lets through, 0 while the prompt is still asking
RECURSIVE prompt_loop(_, _)
prompt_loop(typed, line) ==
    IF line > Len(typed) THEN 0
    ELSE IF typed[line] \in ansi_yes_no_prompt THEN line
    ELSE prompt_loop(typed, line + 1)

\* `if ansi_yes_no_prompt(...) in 'nc': return` with the lines the user types
confirm(typed) ==
    /\ Ready
    /\ ops' = ops + 1
    /\ RegistryOnly
    /\ UNCHANGED <<remote, files, trash>>
    /\ LET line == prompt_loop(typed, 1)
           rec == [Quiet EXCEPT !.op = "prompt", !.asked = TRUE]
       IN  IF line = 0
           THEN /\ last' = [rec EXCEPT !.args = [typed |-> typed, decision |-> << >>],
                                       !.err = "asks"]
                /\ session' = "asking"
           ELSE /\ last' = [rec EXCEPT !.args = [typed |-> typed, decision |-> typed[line]],
                                       !.flag = Declines(typed[line]),
                                       !.err = "ok"]
                /\ session' = "running"

NextPrompt == \E typed \in Typed : confirm(typed)

SpecPrompt == Init /\ [][NextPrompt]_vars

---------------------------------------------------------------------------
(* cloud.py: the call stack of valid_remote_path *)

\* sys.getrecursionlimit(): here just above what the longest path needs
RecursionLimit == MaxDepth + 3

Greatest(S) == CHOOSE n \in S : \A m \in S : m <= n

\* valid_remote_path handing the path on as it is instead of its parent
RECURSIVE valid_remote_path_stack_same_path(_, _, _, _)
valid_remote_path_stack_same_path(file, remote_path, search_trash, depth) ==
    IF depth >= RecursionLimit THEN depth
    ELSE IF file.title # Name(remote_path) THEN depth
    ELSE IF drive_root = None THEN depth
    ELSE IF drive_root \in file.parents THEN depth
    ELSE Greatest({depth} \cup
            {valid_remote_path_stack_same_path(check, remote_path, search_trash, depth + 1) :
                check \in {c \in files_to_search(search_trash) : c.id \in file.parents}})

\* the deepest the call stack of valid_remote_path(file, remote_path) can
\* get, the first call being at `depth`, over the orders in which the loop
\* can meet the candidates; RecursionLimit when the stack is exhausted
RECURSIVE valid_remote_path_stack(_, _, _, _)
valid_remote_path_stack(file, remote_path, search_trash, depth) ==
    IF depth >= RecursionLimit THEN depth
    ELSE IF file.title # Name(remote_path) THEN depth
    ELSE IF drive_root = None THEN depth
    ELSE IF drive_root \in file.parents THEN depth
    ELSE Greatest({depth} \cup
            {valid_remote_path_stack(check, Parent(remote_path), search_trash, depth + 1) :
                check \in {c \in files_to_search(search_trash) : c.id \in file.parents}})

\* caches whose parent references form a cycle (two nodes naming each other,
\* a node naming itself, a trashed node in the cycle) or fan in widely (three
\* nodes each naming the two others), beside the registries of Seeds
ValidateSeeds ==
    LET top == Node(4, "b", {Root}, FALSE, FALSE)
    IN  Seeds \cup
        {{Node(1, "a", {2}, TRUE, FALSE), Node(2, "a", {1}, TRUE, FALSE), top},
         {Node(1, "a", {1}, TRUE, FALSE), top},
         {Node(1, "a", {2}, TRUE, FALSE), Node(2, "a", {1}, TRUE, TRUE), top},
         {Node(1, "a", {2, 3}, TRUE, FALSE), Node(2, "a", {1, 3}, TRUE, FALSE),
          Node(3, "a", {1, 2}, TRUE, FALSE), top}}

InitValidate ==
    /\ remote \in ValidateSeeds
    /\ files = ListLive(remote)
    /\ trash = ListTrashed(remote)
    /\ Idle
    /\ disk = EmptyDisk
    /\ perms = {}
    /\ exportLinks = [i \in Ids |-> Plain]

\* self.valid_remote_path(file, filename, search_trash=trashed)
validate(file, remote_path, search_trash) ==
    /\ Ready
    /\ ops' = ops + 1
    /\ RegistryOnly
    /\ UNCHANGED <<remote, files, trash>>
    /\ LET stack == valid_remote_path_stack(file, remote_path, search_trash, 1)
           valid == valid_remote_path(file, remote_path, search_trash)
           err == IF stack >= RecursionLimit THEN "RecursionError"
                  ELSE IF valid = "TypeError" THEN "TypeError" ELSE "ok"
       IN  /\ last' = [Quiet EXCEPT !.op = "validate", !.path = remote_path,
                                    !.flag = search_trash, !.cands = {file.id},
                                    !.ret = stack, !.args = [valid |-> valid],
                                    !.err = err]
           /\ session' = After(err)

NextValidate ==
    \E file \in files \cup trash, remote_path \in Paths, search_trash \in BOOLEAN :
        validate(file, remote_path, search_trash)

SpecValidate == InitValidate /\ [][NextValidate]_vars

---------------------------------------------------------------------------
(* Vocabulary of the properties *)

LiveIds == {f.id : f \in files}
TrashIds == {f.id : f \in trash}

\* i is cached as live, is not cached as trashed, and is live on the remote
IsLive(i) ==
    /\ i \in LiveIds
    /\ i \notin TrashIds
    /\ \E r \in remote : r.id = i /\ ~r.trashed

\* There are nodes n_1 .. n_k = n of `among`, each a parent of the next, n_1
\* with the root among its parents, whose names are the components of p.
RECURSIVE Chain(_, _, _)
Chain(n, p, among) ==
    /\ p # << >>
    /\ n.title = p[Len(p)]
    /\ IF Len(p) = 1
       THEN Root \in n.parents
       ELSE \E m \in among : m.id \in n.parents /\ Chain(m, Parent(p), among)

\* what a path denotes in the live cache: the root, or the live nodes with a
\* chain spelling the path
Denoted(p) ==
    IF p = << >> THEN {Root} ELSE {f.id : f \in {x \in files : Chain(x, p, files)}}

ParentsIn(reg, id) == UNION {r.parents : r \in {x \in reg : x.id = id}}

Moved == last'.op = "mv" /\ last'.err = "ok" /\ last'.ret \in Denoted(last'.path)

\* what a path denotes in the trashed cache: the trashed nodes with a chain
\* (through live or trashed nodes) spelling the path
TrashDenoted(p) ==
    IF p = << >> THEN {} ELSE {f.id : f \in {x \in trash : Chain(x, p, files \cup trash)}}

\* the registry with node id live again and nothing else changed
Untrashed(reg, id) ==
    {IF r.id = id THEN [r EXCEPT !.trashed = FALSE] ELSE r : r \in reg}

\* the command last typed has made all its calls
Finished(op) == last.op = op /\ todo = << >>

\* the local files below a local directory, and the path of one of them
\* relative to it
Below(local) ==
    {f \in disk.files : Len(f) > Len(local) /\ SubSeq(f, 1, Len(local)) = local}
Relative(f, local) == SubSeq(f, Len(local) + 1, Len(f))

\* the live nodes of the remote registry that a path denotes
RemoteAt(p) ==
    {r.id : r \in {x \in ListLive(remote) : Chain(x, p, ListLive(remote))}}

\* the live files of the remote registry that a path denotes
RemoteFileAt(p) ==
    {r.id : r \in {x \in ListLive(remote) : ~x.folder /\ Chain(x, p, ListLive(remote))}}

\* the live folders of the remote registry that a path denotes
RemoteFolderAt(p) ==
    {r.id : r \in {x \in ListLive(remote) : x.folder /\ Chain(x, p, ListLive(remote))}}


\* the paths a search printed for the file with this id, one entry for
\* every line
Reports(id) == {r \in last.cands : r.id = id}

\* the paths that denote a live node, or the root
PathsOf(id) ==
    IF id = Root THEN {<< >>}
    ELSE {p \in Paths : \E f \in files : f.id = id /\ Chain(f, p, files)}

\* a search went through: every file whose title holds the term has its
\* paths printed (in a fuzzy search, those the library rates close)
Searched ==
    /\ last.op = "search"
    /\ last.err = "ok"
    /\ ~last.flag =>
          \A f \in files : strict_match(last.args.TERM, f.title) => Reports(f.id) # {}

---------------------------------------------------------------------------
(* Properties *)

\* C1: for every cached node n and every path p, valid_remote_path(n, p)
\* succeeds if and only if a chain of nodes leads from the root to n whose
\* names are exactly the components of p.
C1_ValidateIffChain ==
    \A s \in BOOLEAN : \A n \in files \cup trash : \A p \in Paths :
        (valid_remote_path(n, p, s) = "True") <=> Chain(n, p, files_to_search(s))

\* C2: get_remote_file of a non-root path returns None when no searched node
\* of that name validates, the node without asking when exactly one does,
\* and hands all of them to the conflict prompt when several do.
C2_ResolveByCount ==
    (last.op = "resolve" /\ last.path # << >>) =>
        LET m == {f.id : f \in
                     {x \in files_to_check(last.flag) :
                         /\ x.title = Name(last.path)
                         /\ valid_remote_path(x, last.path, last.flag) = "True"}}
        IN  /\ m = {} => (last.ret = None /\ last.cands = {})
            /\ Cardinality(m) = 1 => (last.ret \in m /\ last.cands = {})
            /\ Cardinality(m) > 1 => (last.ret \in m /\ last.cands = m)

\* C3: a live node with two parents X and Y validates against pathToX/name
\* and against pathToY/name, for every path that validates for X and every
\* path that validates for Y (X and Y among the nodes validation searches).
C3_MultiParentValidates ==
    \A s \in BOOLEAN : \A n \in files :
        LET ps == {x \in files_to_search(s) : x.id \in n.parents}
        IN  Cardinality({x.id : x \in ps}) >= 2 =>
                \A X \in ps : \A pathToX \in Paths :
                    valid_remote_path(X, pathToX, s) = "True" =>
                        valid_remote_path(n, Append(pathToX, n.title), s) = "True"

\* a resolve has returned a live node n, not under the root, by a path through
\* its parent X, and n validates by another path through another parent Y
C3_Witness ==
    \E n \in files, X \in files, Y \in files :
        /\ X.id # Y.id /\ {X.id, Y.id} \subseteq n.parents /\ Root \notin n.parents
        /\ last.op = "resolve" /\ ~last.flag /\ last.ret = n.id
        /\ valid_remote_path(X, Parent(last.path), FALSE) = "True"
        /\ valid_remote_path(Y, Parent(last.path), FALSE) = "False"
        /\ \E pathToY \in Paths :
              /\ valid_remote_path(Y, pathToY, FALSE) = "True"
              /\ valid_remote_path(n, Append(pathToY, n.title), FALSE) = "True"

\* C4: get_remote_file of the root path returns the root reference, whatever
\* the live and trashed sets hold.
C4_RootResolves ==
    (last.op = "resolve" /\ last.path = << >>) => last.ret = Root

\* C5: get_remote_file and get_object_children called without the trashed
\* option return only live nodes, never a node of the trashed set: of every
\* call the running shell can make, and of the call last made.
C5_LiveOnly ==
    /\ session = "running" =>
          /\ \A p \in Paths : \A r \in get_remote_file(p, FALSE) :
                r \in Ids => IsLive(r)
          /\ \A parent \in Ids \cup {Root, None} :
                \A c \in get_object_children(parent, FALSE) : IsLive(c)
    /\ (last.op = "resolve" /\ ~last.flag /\ last.ret \in Ids) => IsLive(last.ret)
    /\ (last.op = "ls" /\ ~last.flag) => \A c \in last.cands : IsLive(c)

\* a live resolve has returned a node while a node of the same name and
\* parents sits in the trash
C5_Witness ==
    /\ last.op = "resolve" /\ ~last.flag /\ last.ret \in Ids
    /\ \E t \in trash : \E f \in files :
          f.id = last.ret /\ t.title = f.title /\ t.parents = f.parents

\* C6: when a listing call of update_file_manifest fails, the cached live
\* and trashed sets are both what they were before it started.
C6_RefreshAtomic ==
    [][last'.err = "ApiRequestError" => (files' = files /\ trash' = trash)]_vars

\* C7: after every mutator that completes, the cached live and trashed sets
\* equal the remote's.
C7_CacheIsRemote ==
    (last.op \in {"rm", "recover", "mv"} /\ last.err = "ok") =>
        (files = ListLive(remote) /\ trash = ListTrashed(remote))

\* C8: a move of n from under P (denoted by the source's parent path) to under
\* Q (denoted by the destination's parent path) leaves n with its old parents
\* less P plus Q.
C8_MoveParents ==
    [][(Moved /\ Denoted(Parent(last'.dest)) # {}) =>
          \E P \in Denoted(Parent(last'.path)), Q \in Denoted(Parent(last'.dest)) :
              ParentsIn(remote', last'.ret) =
                  (ParentsIn(remote, last'.ret) \ {P}) \cup {Q}]_vars

\* C9: in a move the source's parent and the destination's parent are the
\* nodes their full parent paths denote.
C9_FullParentPaths ==
    [][Moved =>
          /\ last'.sp \in Denoted(Parent(last'.path))
          /\ Denoted(Parent(last'.dest)) # {} =>
                last'.dp \in Denoted(Parent(last'.dest))]_vars

\* C10: rm with --delete removes the node for good (it is in neither set
\* and on the remote no more); rm without it moves the node from the live
\* set to the trashed set.
C10_DeleteOrTrash ==
    (last.op = "rm" /\ last.err = "ok") =>
        IF last.flag
        THEN /\ last.ret \notin LiveIds \cup TrashIds
             /\ last.ret \notin {r.id : r \in remote}
        ELSE /\ last.ret \in TrashIds /\ last.ret \notin LiveIds
             /\ \E r \in remote : r.id = last.ret /\ r.trashed

\* C11: a restore by the path a node was just trashed by brings that node
\* back to the live set with its id, name and parents, every other node as
\* it was; a restore whose (named) path denotes no trashed node fails with
\* RemotePathNotFound and changes nothing.
C11_TrashRestore ==
    [][(last'.op = "recover" /\ last'.err # "ApiRequestError") =>
          /\ (last.op = "rm" /\ last.err = "ok" /\ last.path = last'.path) =>
                /\ last'.err = "ok"
                /\ last'.ret = last.ret =>
                      /\ remote' = Untrashed(remote, last.ret)
                      /\ \E f \in files' : \E r \in remote :
                            /\ f.id = last.ret /\ r.id = last.ret
                            /\ f.title = r.title /\ f.parents = r.parents
                      /\ \A t \in trash' : t.id # last.ret
          /\ (last'.path # << >> /\ TrashDenoted(last'.path) = {}) =>
                /\ last'.err = "RemotePathNotFound"
                /\ UNCHANGED <<remote, files, trash>>]_vars

\* C12: a push of a local directory with folder and recursive modes, once
\* confirmed, completes, and every local file below the directory is then a
\* live remote file at the path that mirrors its place: the destination
\* followed by the file's path relative to the pushed directory (or by the
\* directory's name and that path, as in dest/foo/a.txt).
C12_RecursivePush ==
    (/\ Finished("push") /\ last.folder /\ last.flag /\ is_dir(last.local)
     /\ last.err \notin {"declined", "ApiRequestError"}) =>
        /\ last.err = "ok"
        /\ \A f \in Below(last.local) :
              \/ RemoteFileAt(last.path \o Relative(f, last.local)) # {}
              \/ RemoteFileAt(last.path \o <<Name(last.local)>>
                                        \o Relative(f, last.local)) # {}

\* C13: in folder mode without recursive mode a child that is a directory
\* (push) or a folder (pull) is skipped: no call is made for it, no folder is
\* created for it and nothing below it is transferred; every child that is a
\* file is transferred when the command completes.
C13_FolderModeSkips ==
    /\ (/\ last.op = "pull" /\ last.folder /\ ~last.flag
        /\ last.ret \in Ids /\ last.err # "declined") =>
          LET children == {Cached(c) : c \in get_object_children(last.ret, FALSE)}
          IN  Cached(last.ret).folder =>
                /\ \A c \in children : c.folder => \A call \in io : call.id # c.id
                /\ (Finished("pull") /\ last.err = "ok") =>
                      \A c \in children : ~c.folder =>
                          \E call \in io : call.call = "GetContentFile" /\ call.id = c.id
    /\ (/\ last.op = "push" /\ last.folder /\ ~last.flag /\ is_dir(last.local)
        /\ last.err # "declined") =>
          /\ \A call \in io :
                /\ call.call = "upload" =>
                      is_file(call.path) /\ Parent(call.path) = last.local
                /\ call.call = "create_folder" =>
                      \A d \in iterdir(last.local) :
                          is_dir(d) => call.path # Append(last.path, Name(d))
          /\ (Finished("push") /\ last.err = "ok") =>
                \A f \in iterdir(last.local) : is_file(f) =>
                    \E call \in io : call.call = "upload" /\ call.path = f

\* C14: a push of a single local file that completes has overwritten the
\* node its remote path resolved to (same nodes in the registry, the content
\* uploaded to a node that was there) or, when the path did not resolve, has
\* created exactly one new file, denoted by that path, with the content.
C14_SingleFilePush ==
    [][(/\ last.op = "push" /\ is_file(last.local) /\ last.path # << >>
        /\ todo # << >> /\ todo' = << >> /\ last'.err = "ok") =>
          IF last.ret \in Ids
          THEN /\ remote' = remote
               /\ \E call \in io' :
                     /\ call.call = "upload" /\ call.path = last.local
                     /\ call.id \in {r.id : r \in remote}
               /\ \A call \in io' : call.call # "create_file"
          ELSE \E n \in remote' \ remote :
                  /\ ~n.folder
                  /\ \A m \in remote' \ remote : ~m.folder => m = n
                  /\ RemoteFileAt(last.path)' = {n.id}
                  /\ CallFor("upload", n.id, last.local, "") \in io']_vars

\* C15: in a session of file and folder-path creations, a folder path for
\* which a folder is created on demand is from then on denoted by exactly
\* one folder: by one right after the creation, and never by more, whatever
\* is created later.
C15_NoFolderTwice ==
    [][/\ \A call \in io' \ io :
             (call.call = "create_folder" /\ last'.err = "ok") =>
                 Cardinality(RemoteFolderAt(call.path)') = 1
       /\ \A path \in Paths :
             Cardinality(RemoteFolderAt(path)) = 1 =>
                 Cardinality(RemoteFolderAt(path)') = 1]_vars

\* C16: after a folder path of different names, /a/b/c, is created,
\* resolving /a/b/c gives the node the creation returned, and the node a
\* prefix of the path resolves to is a parent of the node the next longer
\* prefix resolves to.
C16_CreateThenResolve ==
    (/\ last.op = "mkpath" /\ last.err = "ok" /\ last.path # << >>
     /\ \A i, j \in 1..Len(last.path) : i # j => last.path[i] # last.path[j]) =>
        /\ get_remote_file(last.path, FALSE) = {last.ret}
        /\ \A k \in 1..(Len(last.path) - 1) :
              \A above \in get_remote_file(SubSeq(last.path, 1, k), FALSE),
                 below \in get_remote_file(SubSeq(last.path, 1, k + 1), FALSE) :
                  \E f \in files : f.id = below /\ above \in f.parents

\* C17: a push whose remote destination, or a move whose destination
\* parent, does not resolve goes through only after the user was asked; and
\* when the user declines, the command ends with no call made on the remote
\* and none to come.
C17_ConfirmGate ==
    [][(ops' = ops + 1 /\ last'.op \in {"push", "mv"}) =>
          LET wanted == IF last'.op = "push" THEN last'.path ELSE Parent(last'.dest)
          IN  /\ (Denoted(wanted) = {} /\ last'.err = "ok") => last'.asked
              /\ last'.err = "declined" =>
                    /\ last'.asked
                    /\ UNCHANGED <<remote, files, trash>>
                    /\ todo' = << >>
                    /\ io' = {}]_vars

C19_GrantPreconditions ==
    [][(ops' = ops + 1 /\ last'.op = "share" /\ last'.ret \in Ids /\ last'.args.add) =>
          LET args == last'.args
              selected == {r \in Roles : args[r]}
              suppressed == "quiet" \in DOMAIN args /\ args.quiet
              to == IF args.link THEN {"anyone"} ELSE args.EMAILS
              inserts == {c \in io' : c.call = "InsertPermission"}
          IN  IF selected = {}
              THEN last'.err = "NoRoleSelected" /\ inserts = {} /\ perms' = perms
              ELSE IF to = {}
              THEN /\ inserts = {} /\ perms' = perms
                   /\ last'.err = IF suppressed THEN "ok" ELSE "NoTargetHostGiven"
              ELSE /\ last'.err = "ok"
                   /\ \A who \in to :
                         \E r \in selected :
                            /\ {c \in inserts : c.who = who} =
                                   {PermissionCall("InsertPermission", last'.ret, who, r)}
                            /\ Grant(last'.ret, PermissionId(who), r) \in perms'
                   /\ \A c \in inserts : c.who \in to
                   /\ \A p \in perms \cup perms' :
                         (p.id # last'.ret \/ \A who \in to : p.who # PermissionId(who)) =>
                             p \in perms \cap perms']_vars

\* C20: share --delete on a node.  Without --link the permission of every
\* addressee named that has one is removed and no other, and
\* PermissionNonExistent is reported exactly when an addressee named had
\* none and the report is not suppressed; with --link the link-wide
\* permission is removed and no other.
C20_Revocation ==
    [][(ops' = ops + 1 /\ last'.op = "share" /\ last'.ret \in Ids /\ last'.args.delete) =>
          LET args == last'.args
              suppressed == "quiet" \in DOMAIN args /\ args.quiet
              had(who) == \E p \in perms : p.id = last'.ret /\ p.who = who
              E == IF args.link THEN {"anyoneWithLink"} ELSE args.EMAILS
          IN  /\ perms' = {p \in perms : ~(p.id = last'.ret /\ p.who \in E)}
              /\ ~args.link =>
                    last'.err = IF (\E who \in E : ~had(who)) /\ ~suppressed
                                THEN "PermissionNonExistent" ELSE "ok"]_vars

C22_PathNotFound ==
    [][(/\ ops' = ops + 1
        /\ last'.op \in {"ls", "rm", "recover", "mv", "pull", "share"}
        /\ last'.path # << >>
        /\ matching_files(last'.path, CASE last'.op = "ls" -> last'.flag
                                        [] last'.op = "recover" -> TRUE
                                        [] OTHER -> FALSE) = {}) =>
          /\ last'.err = "RemotePathNotFound"
          /\ UNCHANGED <<remote, files, trash, perms>>]_vars

\* C23: given candidates, the conflict prompt returns one node, which is a
\* candidate and has the id of the first answer that is the id of a
\* candidate; every answer before it, no candidate's id, only made the
\* prompt come again, and while no such answer is typed nothing is
\* returned; the cache and the registry are as they were.
C23_ConflictChoice ==
    [][(ops' = ops + 1 /\ last'.op = "conflict") =>
          LET responses == last'.args.responses
              valid == {i \in 1..Len(responses) : responses[i] \in last'.cands}
          IN  /\ UNCHANGED <<remote, files, trash>>
              /\ last'.cands # {}
              /\ IF valid = {}
                 THEN last'.ret = None /\ session' = "asking"
                 ELSE /\ last'.ret \in last'.cands
                      /\ \E i \in valid : /\ last'.ret = responses[i]
                                          /\ \A j \in 1..(i - 1) : j \notin valid
                      /\ last'.ret \in resolve_mnemonic_conflict(
                                           {f \in files : f.id \in last'.cands})
                      /\ session' = "running"]_vars

\* the prompt came again after an answer that is the id of a file but of no
\* candidate, and then returned the candidate whose id was typed
C23_Witness ==
    /\ last.op = "conflict"
    /\ Cardinality(last.cands) = 2
    /\ Len(last.args.responses) = 2
    /\ last.args.responses[1] \in LiveIds \ last.cands
    /\ last.ret = last.args.responses[2]
    /\ last.ret \in last.cands


\* C24: a cd whose argument starts with a `..` component (the bare `..` as
\* well as `../rest`) resolves the rest of the argument against the parent of
\* the cursor, and a cd whose argument starts with `/` resolves the rest from
\* the root; a cd that succeeds leaves the cursor on the path so formed.
C24_CdDotDotAndSlash ==
    [][(ops' = ops + 1 /\ last'.op = "cd" /\ last'.args.PATH # "") =>
         LET PATH == last'.args.PATH
             rest == IF Len(PATH) > 3 THEN SubSeq(PATH, 4, Len(PATH)) ELSE ""
         IN  /\ (PATH = ".." \/ startswith(PATH, "../")) =>
                    /\ last'.path = Parent(REMOTE_FILE_PATH) \o parts(rest)
                    /\ last'.err = "ok" => REMOTE_FILE_PATH' = last'.path
             /\ startswith(PATH, "/") =>
                    /\ last'.path = parts(PATH)
                    /\ last'.err = "ok" => REMOTE_FILE_PATH' = last'.path]_vars

\* C28: after every cd the cursor is the root or a path that resolves to a
\* live folder, and a cd that ends with RemotePathNotFound or RemotePathIsFile
\* leaves the cursor as it was.
C28_CursorStaysValid ==
    [][(ops' = ops + 1 /\ last'.op = "cd") =>
         /\ \/ REMOTE_FILE_PATH' = << >>
            \/ \E f \in files : f.folder /\ f.id \in get_remote_file(REMOTE_FILE_PATH', FALSE)
         /\ last'.err \in {"RemotePathNotFound", "RemotePathIsFile"} =>
                REMOTE_FILE_PATH' = REMOTE_FILE_PATH]_vars


\* C25: ls of the root, or of a path that denotes live folders only, goes
\* through and lists the children of the folder: with --all every live and
\* every trashed node that has the folder among its parents, without it the
\* live ones only.
C25_ListWithTrashed ==
    [][(/\ ops' = ops + 1
        /\ last'.op = "ls"
        /\ Denoted(last'.path) # {}
        /\ \A i \in Denoted(last'.path) : i = Root \/ \E f \in files : f.id = i /\ f.folder) =>
          /\ last'.err = "ok"
          /\ \E folder \in Denoted(last'.path) :
                last'.cands = {x.id : x \in {y \in (IF last'.flag THEN files \cup trash ELSE files) :
                                                folder \in y.parents}}]_vars


\* C26: the yes/no prompt returns only with a line that is exactly y, n or
\* c, namely the first such line typed; every other line, the empty one and
\* those of several characters included, is asked again.  What the prompt
\* guards is given up on n and c and goes on on y.
C26_PromptExact ==
    last.op = "prompt" =>
        LET typed == last.args.typed
            exact == {i \in 1..Len(typed) : typed[i] \in {<<"y">>, <<"n">>, <<"c">>}}
        IN  /\ last.err = "ok" <=> exact # {}
            /\ last.err = "ok" =>
                  /\ \E i \in exact : /\ last.args.decision = typed[i]
                                      /\ \A j \in exact : i <= j
                  /\ last.flag <=> last.args.decision \in {<<"n">>, <<"c">>}


\* C27: a recursive push of a local directory comes to an end without
\* exhausting the call stack, and every call it has pending is for a file of
\* the directory its continuation was issued for: the remote directory of
\* the call mirrors, below the destination, the place of the file's
\* directory below the pushed one.
C27_RecursionDescends ==
    (last.op = "push" /\ last.folder /\ last.flag /\ is_dir(last.local)) =>
        /\ last.err # "RecursionError"
        /\ \A i \in 1..Len(todo) :
              /\ todo[i].call # "RecursionError"
              /\ todo[i].call = "create_file" =>
                    Parent(todo[i].remote) =
                        last.path \o Relative(Parent(todo[i].local), last.local)


\* C29: a validation of a cached node against a path never has more calls
\* on the stack than the path has components, plus one, and never exhausts
\* the stack, whatever the parent references of the cache are.
C29_ValidateDepth ==
    last.op = "validate" =>
        /\ last.ret <= Len(last.path) + 1
        /\ last.err # "RecursionError"

\* a validation of a path of MaxDepth components that went all the way up
\* to the root path in a cache whose parent references form a cycle
C29_Witness ==
    /\ last.op = "validate"
    /\ Len(last.path) = MaxDepth
    /\ last.ret = MaxDepth + 1
    /\ \E f \in files, g \in files : f.id \in g.parents /\ g.id \in f.parents

===========================================================================
